---- MODULE Spec2Model ----
(***************************************************************************)
(* Incremental DICOM -> NIfTI preprocessing pipeline (src/main.py).        *)
(*                                                                         *)
(* The model keeps the on-disk state of the five directory trees, the      *)
(* persisted identity table name_mapping.csv and the position of the       *)
(* orchestrator.  A relative path is a natural number (its rank in the     *)
(* sorted order that sorted(glob(...)) produces).  An assigned name              *)
(* "case_NNN.nii.gz" is the sequence of its decimal digits, so that        *)
(* formatting, parsing and the string sort of the table are computed as    *)
(* the code computes them.                                                 *)
(***************************************************************************)
EXTENDS Integers, Sequences, FiniteSets, TLC

VARIABLES OVERWRITE, RUN_STEPS, raw, unzipped, nifti, clipped, final, csv, pc,
          selected, faults, ledger, last_exit, made_from,
          input_name, san, raw_names, walked, dst_tree

vars == <<OVERWRITE, RUN_STEPS, raw, unzipped, nifti, clipped, final, csv, pc,
          selected, faults, ledger, last_exit, made_from,
          input_name, san, raw_names, walked, dst_tree>>

\* what the runs of step 1 over named directories and the calls of
\* sanitize_name on a drawn input keep for themselves
names_state == <<input_name, san, raw_names, walked, dst_tree>>

\* ------------------------------------------------------------------ bounds
\* relative paths 1..NumPaths may appear under 03_Clipped_HU (registry runs)
NumPaths == 3
\* a run of step 4 is explored only while its identifiers stay <= MaxId
MaxId == 3
\* series directories 1..NumSeries under the raw tree (full pipeline runs)
NumSeries == 2
\* failed transforms and interruptions explored along one pipeline history
MaxFaults == 2

Paths == 1..NumPaths
Series == 1..NumSeries

\* ----------------------------------------------------------------- helpers
RECURSIVE SortedSeq(_)
\* sorted(glob.glob(...)): the members of S in increasing order
SortedSeq(S) ==
    IF S = {} THEN <<>>
    ELSE LET m == CHOOSE x \in S : \A y \in S : x <= y
         IN  <<m>> \o SortedSeq(S \ {m})

Range(s) == {s[i] : i \in 1..Len(s)}

RECURSIVE Digits(_)
\* decimal digits of n, most significant first
Digits(n) == IF n < 10 THEN <<n>> ELSE Digits(n \div 10) \o <<n % 10>>

\* f"case_{max_id:03d}.nii.gz": zero-padded to width 3, wider when needed
FormatName(n) ==
    LET d == Digits(n)
    IN  IF Len(d) >= 3 THEN d
        ELSE IF Len(d) = 2 THEN <<0>> \o d ELSE <<0, 0>> \o d

RECURSIVE DigitsValue(_)
DigitsValue(d) ==
    IF d = <<>> THEN 0
    ELSE 10 * DigitsValue(SubSeq(d, 1, Len(d) - 1)) + d[Len(d)]

\* int(re.search(r'case_(\d+)', name).group(1))
ParseId(name) == DigitsValue(name)

RECURSIVE StrLess(_, _)
\* Python's str "<" on two names (the shorter digit run is followed by ".")
StrLess(a, b) ==
    IF b = <<>> THEN FALSE
    ELSE IF a = <<>> THEN TRUE
    ELSE IF a[1] # b[1] THEN a[1] < b[1]
    ELSE StrLess(Tail(a), Tail(b))

\* names that the explored runs can assign
Names == {FormatName(i) : i \in 1..MaxId}

\* a New Name that holds no case_<digits>, such as "scan.nii.gz", put into
\* the table by hand: its one element stands for a character that is no
\* digit and that Python's str "<" puts after "c"
ForeignName == <<10>>

\* names of the files that 04_Resampled_1mm can hold
OutputNames == Names \cup {ForeignName}

\* re.search(r'case_(\d+)', name) finds a match
Matches(name) == name # <<>> /\ \A i \in 1..Len(name) : name[i] \in 0..9

\* ------------------------------------------------------------- file states
\* a file under 01_Uncompressed or 04_Resampled_1mm: not there, cut short by
\* an interrupted or failed write, or written completely
FileStates == {"absent", "partial", "full"}
\* a series directory under 02_NIfTI: no directory, a directory without any
\* *.nii.gz, or a directory whose volume is cut short or complete
DirStates == {"absent", "empty", "partial", "full"}
\* a volume under 03_Clipped_HU: "small" is a file of at most 1024 bytes,
\* "partial" and "full" are larger than 1024 bytes
ClipStates == {"absent", "small", "partial", "full"}

\* os.path.exists(os.path.join(dst_root, name))
Exists(tree, name) == name \in DOMAIN tree /\ tree[name] # "absent"

\* name_mapping.csv: absent, or a header line followed by rows <<New Name,
\* Rel Path>> (Full Path is src_root joined with Rel Path)
NoCsv == [exists |-> FALSE, header |-> FALSE, rows |-> <<>>]

\* ------------------------------------------------------ step 4: the registry
\* a line of the file that the reader cannot decode: iterating the
\* DictReader raises there
BadRow == <<>>

\* rows of the table as csv.DictReader yields them, up to the line where
\* the iteration raises; the except of line 243 keeps what was read
ReadRows(c) ==
    LET bad == {i \in 1..Len(c.rows) : c.rows[i] = BadRow}
    IN  IF ~(c.exists /\ c.header) THEN <<>>
        ELSE IF bad = {} THEN c.rows
        ELSE SubSeq(c.rows, 1, (CHOOSE i \in bad : \A j \in bad : i <= j) - 1)

\* a load that leaves out the rows whose name holds no case_<digits>
LoadMap_drops_foreign(c, ow) ==
    LET rows == IF c.exists /\ ~ow THEN ReadRows(c) ELSE <<>>
        kept == {i \in 1..Len(rows) : Matches(rows[i][1])}
        last(p) == CHOOSE i \in kept :
                      /\ rows[i][2] = p
                      /\ \A j \in kept : rows[j][2] = p => j <= i
    IN  [p \in {rows[i][2] : i \in kept} |-> rows[last(p)][1]]

\* existing_map after the load loop: the last row of a path wins
LoadMap(c, ow) ==
    LET rows == IF c.exists /\ ~ow THEN ReadRows(c) ELSE <<>>
        last(p) == CHOOSE i \in 1..Len(rows) :
                      /\ rows[i][2] = p
                      /\ \A j \in 1..Len(rows) : rows[j][2] = p => j <= i
    IN  [p \in {rows[i][2] : i \in 1..Len(rows)} |-> rows[last(p)][1]]

RECURSIVE LoadMaxFrom(_, _)
LoadMaxFrom(rows, max_id) ==
    IF rows = <<>> THEN max_id
    ELSE IF ~Matches(Head(rows)[1]) THEN LoadMaxFrom(Tail(rows), max_id)
    ELSE LET curr_id == ParseId(Head(rows)[1])
         IN  LoadMaxFrom(Tail(rows), IF curr_id > max_id THEN curr_id ELSE max_id)

\* a load that reads the table also when OVERWRITE is on
LoadMax_ignores_overwrite(c, ow) ==
    LoadMaxFrom(IF c.exists THEN ReadRows(c) ELSE <<>>, 0)

\* a load that takes the number of rows for the largest identifier
LoadMax_rowcount(c, ow) ==
    Len(IF c.exists /\ ~ow THEN ReadRows(c) ELSE <<>>)

\* max_id after the load loop
LoadMax(c, ow) ==
    LoadMaxFrom(IF c.exists /\ ~ow THEN ReadRows(c) ELSE <<>>, 0)

\* image_paths of step 4, as relative paths
Discovered(tree) == SortedSeq({p \in DOMAIN tree : tree[p] # "absent"})

RECURSIVE ReconcileLoop_reassign(_, _, _, _, _)
\* a reconciliation that treats a registered path whose output is missing
\* as a new item
ReconcileLoop_reassign(image_paths, existing_map, ow, out, st) ==
    IF image_paths = <<>> THEN st
    ELSE
      LET rel_path == Head(image_paths)
      IN  IF /\ rel_path \in DOMAIN existing_map
             /\ ~ow
             /\ Exists(out, existing_map[rel_path])
          THEN ReconcileLoop_reassign(Tail(image_paths), existing_map, ow, out,
                 [st EXCEPT !.final_mapping =
                                Append(@, <<existing_map[rel_path], rel_path>>)])
          ELSE LET new_name == FormatName(st.max_id + 1)
               IN  ReconcileLoop_reassign(Tail(image_paths), existing_map, ow, out,
                     [max_id |-> st.max_id + 1,
                      files_to_process |->
                          Append(st.files_to_process, <<rel_path, new_name>>),
                      final_mapping |->
                          Append(st.final_mapping, <<new_name, rel_path>>)])

RECURSIVE ReconcileLoop(_, _, _, _, _)
\* the loop over image_paths; st carries max_id, final_mapping, files_to_process
ReconcileLoop(image_paths, existing_map, ow, out, st) ==
    IF image_paths = <<>> THEN st
    ELSE
      LET rel_path == Head(image_paths)
      IN  IF rel_path \in DOMAIN existing_map /\ ~ow
          THEN LET assigned_name == existing_map[rel_path]
               IN  ReconcileLoop(Tail(image_paths), existing_map, ow, out,
                     [st EXCEPT
                        !.files_to_process =
                            IF ~Exists(out, assigned_name)
                            THEN Append(@, <<rel_path, assigned_name>>) ELSE @,
                        !.final_mapping = Append(@, <<assigned_name, rel_path>>)])
          ELSE LET new_name == FormatName(st.max_id + 1)
               IN  ReconcileLoop(Tail(image_paths), existing_map, ow, out,
                     [max_id |-> st.max_id + 1,
                      files_to_process |->
                          Append(st.files_to_process, <<rel_path, new_name>>),
                      final_mapping |->
                          Append(st.final_mapping, <<new_name, rel_path>>)])

\* lines 226-271: load the table, scan, reconcile
Reconcile ==
    ReconcileLoop(Discovered(clipped), LoadMap(csv, OVERWRITE), OVERWRITE, final,
                  [max_id |-> LoadMax(csv, OVERWRITE),
                   files_to_process |-> <<>>,
                   final_mapping |-> <<>>])

RECURSIVE InsertByName(_, _)
InsertByName(sorted, row) ==
    IF sorted = <<>> THEN <<row>>
    ELSE IF StrLess(row[1], Head(sorted)[1])
         THEN <<row>> \o sorted
         ELSE <<Head(sorted)>> \o InsertByName(Tail(sorted), row)

RECURSIVE SortByName(_)
\* final_mapping.sort(key=lambda x: x[0]): a stable sort on the name
SortByName(rows) ==
    IF rows = <<>> THEN <<>>
    ELSE InsertByName(SortByName(SubSeq(rows, 1, Len(rows) - 1)), rows[Len(rows)])

\* what sitk.ReadImage / Resample / WriteImage leave behind for one unit:
\* the output written, an exception before anything is written, or an
\* exception that leaves a file cut short
Outcomes4 == {"ok", "fail", "torn"}

WriteResult(old, o) ==
    IF o = "ok" THEN "full" ELSE IF o = "torn" THEN "partial" ELSE old

RECURSIVE ResampleLoop(_, _, _)
\* the loop over files_to_process; a failure is logged and the loop goes on
ResampleLoop(files_to_process, outcomes, out) ==
    IF files_to_process = <<>> THEN out
    ELSE LET new_name == Head(files_to_process)[2]
         IN  ResampleLoop(Tail(files_to_process), Tail(outcomes),
                 [out EXCEPT ![new_name] = WriteResult(@, Head(outcomes))])

\* the table that the with-block of lines 291-294 writes
PersistedTable(final_mapping) ==
    [exists |-> TRUE, header |-> TRUE, rows |-> SortByName(final_mapping)]

\* what an interruption inside the with-block leaves: open(csv_path, 'w')
\* has truncated the file, and a prefix of the lines has reached the disk
TornTables(final_mapping) ==
    {[exists |-> TRUE, header |-> FALSE, rows |-> <<>>]} \cup
    {[exists |-> TRUE, header |-> TRUE,
      rows |-> SubSeq(SortByName(final_mapping), 1, k)] :
         k \in 0..(Len(final_mapping) - 1)}

\* step_4_resample run to its end
step_4_resample(outcomes) ==
    LET r == Reconcile
    IN  /\ r.max_id <= MaxId
        /\ Len(outcomes) = Len(r.files_to_process)
        /\ final' = ResampleLoop(r.files_to_process, outcomes, final)
        /\ csv' = PersistedTable(r.final_mapping)
        /\ selected' = r.files_to_process
        /\ UNCHANGED <<OVERWRITE, raw, unzipped, nifti, clipped>>

\* step_4_resample interrupted while it resamples unit number k: the units
\* before it are done, its own output is cut short or untouched
step_4_killed_resampling(outcomes, k, o) ==
    LET r == Reconcile
    IN  /\ r.max_id <= MaxId
        /\ k \in 1..Len(r.files_to_process)
        /\ Len(outcomes) = k - 1
        /\ o \in {"fail", "torn"}
        /\ final' = ResampleLoop(SubSeq(r.files_to_process, 1, k),
                                 Append(outcomes, o), final)
        /\ selected' = r.files_to_process
        /\ UNCHANGED <<OVERWRITE, raw, unzipped, nifti, clipped, csv>>

\* step_4_resample interrupted inside the with-block that writes the table
step_4_killed_persisting(outcomes, torn) ==
    LET r == Reconcile
    IN  /\ r.max_id <= MaxId
        /\ Len(outcomes) = Len(r.files_to_process)
        /\ torn \in TornTables(r.final_mapping)
        /\ final' = ResampleLoop(r.files_to_process, outcomes, final)
        /\ csv' = torn
        /\ selected' = r.files_to_process
        /\ UNCHANGED <<OVERWRITE, raw, unzipped, nifti, clipped>>

\* all outcome vectors of length n over the outcome set O
OutcomeSeqs(O, n) == [1..n -> O]

\* ------------------------------------------------------------ steps 1, 2, 3
\* Each series directory of the raw tree holds one DICOM file, step 2 turns
\* a directory into one volume, so a series number names the unit of every
\* stage; its destination is the same relative path under the next root,
\* written <<s>>.  A loop takes the outcomes of the external transforms in
\* the order it invokes them and ends early where the process is killed,
\* that is where no outcome is left for a unit it has to process.

\* run_command(dcmdjpeg) and the shutil.copy2 fallback: the file written, or
\* both failing with the destination untouched or cut short
Outcomes1 == {"ok", "fail", "torn"}

RECURSIVE UnzipLoop_ignores_overwrite(_, _, _, _)
\* a walk that skips every existing destination, whatever OVERWRITE says
UnzipLoop_ignores_overwrite(units, outcomes, ow, st) ==
    IF units = <<>> THEN st
    ELSE LET s == Head(units)
         IN  IF Exists(st.tree, s)
             THEN UnzipLoop_ignores_overwrite(Tail(units), outcomes, ow, st)
             ELSE IF outcomes = <<>> THEN st
             ELSE UnzipLoop_ignores_overwrite(Tail(units), Tail(outcomes), ow,
                    [tree |-> [st.tree EXCEPT ![s] = WriteResult(@, Head(outcomes))],
                     done |-> Append(st.done, <<s, <<s>>>>),
                     count |-> st.count + 1])

RECURSIVE UnzipLoop(_, _, _, _)
\* the walk of step_1_unzip; st carries the tree, the units handed to the
\* transform and count
UnzipLoop(units, outcomes, ow, st) ==
    IF units = <<>> THEN st
    ELSE LET s == Head(units)
         IN  IF ~ow /\ Exists(st.tree, s)
             THEN UnzipLoop(Tail(units), outcomes, ow, st)
             ELSE IF outcomes = <<>> THEN st
             ELSE UnzipLoop(Tail(units), Tail(outcomes), ow,
                    [tree |-> [st.tree EXCEPT ![s] = WriteResult(@, Head(outcomes))],
                     done |-> Append(st.done, <<s, <<s>>>>),
                     count |-> st.count + 1])

\* directories of the raw tree that hold a .dcm or .ima file
Units1 == SortedSeq({s \in DOMAIN raw : raw[s]})

\* step_1_unzip with the given transform outcomes
Unzip(outcomes) ==
    UnzipLoop(Units1, outcomes, OVERWRITE,
              [tree |-> unzipped, done |-> <<>>, count |-> 0])

\* number of units step 1 hands to its transform when nothing stops it
Load1 == Unzip([i \in 1..Cardinality(DOMAIN raw) |-> "ok"]).count

\* dcm2niix on one directory: a volume written, nothing written, or a volume
\* cut short
Outcomes2 == {"ok", "fail", "torn"}

\* the output directory after makedirs and dcm2niix
ConvertResult(old, o) ==
    IF o = "ok" THEN "full"
    ELSE IF o = "torn" THEN "partial"
    ELSE IF old = "absent" THEN "empty" ELSE old

\* a check of the output directory alone, without the glob
HasVolume_dir_only(tree, s) == s \in DOMAIN tree /\ tree[s] # "absent"

\* glob.glob(os.path.join(out_dir, "*.nii.gz"))
HasVolume(tree, s) == s \in DOMAIN tree /\ tree[s] \in {"partial", "full"}

RECURSIVE ConvertLoop(_, _, _, _)
\* the walk of step_2_convert
ConvertLoop(units, outcomes, ow, st) ==
    IF units = <<>> THEN st
    ELSE LET s == Head(units)
         IN  IF ~ow /\ Exists(st.tree, s) /\ HasVolume(st.tree, s)
             THEN ConvertLoop(Tail(units), outcomes, ow, st)
             ELSE IF outcomes = <<>> THEN st
             ELSE ConvertLoop(Tail(units), Tail(outcomes), ow,
                    [tree |-> [st.tree EXCEPT ![s] = ConvertResult(@, Head(outcomes))],
                     done |-> Append(st.done, <<s, <<s>>>>),
                     count |-> st.count + 1])

\* is_dcm_dir: directories of 01_Uncompressed that hold a file (every file
\* step 1 writes there is named *.dcm or *.ima)
Units2 == SortedSeq({s \in DOMAIN unzipped : unzipped[s] # "absent"})

Convert(outcomes) ==
    ConvertLoop(Units2, outcomes, OVERWRITE,
                [tree |-> nifti, done |-> <<>>, count |-> 0])

Load2 == Convert([i \in 1..Cardinality(DOMAIN unzipped) |-> "ok"]).count

\* a size check against a threshold that no clipped volume reaches
IsLarge_never(tree, s) == FALSE

\* os.path.getsize(target_file) > 1024
IsLarge(tree, s) == s \in DOMAIN tree /\ tree[s] \in {"partial", "full"}

RECURSIVE ClipGate(_, _, _)
\* lines 176-185: process_list
ClipGate(image_paths, ow, tree) ==
    IF image_paths = <<>> THEN <<>>
    ELSE LET p == Head(image_paths)
         IN  IF ~ow /\ Exists(tree, p) /\ IsLarge(tree, p)
             THEN ClipGate(Tail(image_paths), ow, tree)
             ELSE <<p>> \o ClipGate(Tail(image_paths), ow, tree)

\* sorted(glob(... "**", "*.nii.gz")) under 02_NIfTI
Units3 == SortedSeq({s \in DOMAIN nifti : HasVolume(nifti, s)})

process_list == ClipGate(Units3, OVERWRITE, clipped)

\* SaveImage on one loaded volume: a file larger than 1024 bytes written, a
\* file of at most 1024 bytes written, an exception with nothing written, or
\* an exception that leaves a file cut short above 1024 bytes
Outcomes3 == {"ok", "small", "fail", "torn"}

ClipResult(old, o) ==
    IF o = "ok" THEN "full"
    ELSE IF o = "small" THEN "small"
    ELSE IF o = "torn" THEN "partial" ELSE old

RECURSIVE ClipLoop(_, _, _)
\* lines 201-214: the loop over the loader; the try block covers the save
ClipLoop(todo, outcomes, tree) ==
    IF todo = <<>> \/ outcomes = <<>> THEN tree
    ELSE ClipLoop(Tail(todo), Tail(outcomes),
                  [tree EXCEPT ![Head(todo)] = ClipResult(@, Head(outcomes))])

\* number of outcomes other than "ok" in a vector
Failures(outcomes) == Cardinality({i \in 1..Len(outcomes) : outcomes[i] # "ok"})

\* ------------------------------------------------------------ configuration
\* the keys of RUN_STEPS, in the order of the __main__ block
StepNames == {"1_unzip", "2_convert", "3_clip", "4_resample", "5_stats"}

StepName(k) ==
    CASE k = 1 -> "1_unzip" [] k = 2 -> "2_convert" [] k = 3 -> "3_clip"
      [] k = 4 -> "4_resample" [] k = 5 -> "5_stats"

\* a __main__ block that calls every step, whatever RUN_STEPS says
Enabled_always(k) == TRUE

\* if RUN_STEPS["k_..."]: step_k()
Enabled(k) == RUN_STEPS[StepName(k)]

\* no name is being sanitized and no named directory is being walked
NamesIdle ==
    /\ input_name = <<>>
    /\ san = [called |-> FALSE, ret |-> <<>>]
    /\ raw_names = <<>>
    /\ walked = 0
    /\ dst_tree = {}

\* ------------------------------------------- registry runs (only 4_resample)
\* RUN_STEPS enables 4_resample alone; between runs (the process has exited,
\* its lists are gone) the user adds and removes clipped volumes, deletes
\* outputs and edits OVERWRITE; pc, faults and last_exit are not followed
InitReg ==
    /\ OVERWRITE = FALSE
    /\ raw = [s \in {} |-> FALSE]
    /\ unzipped = [s \in {} |-> "absent"]
    /\ nifti = [s \in {} |-> "absent"]
    /\ clipped = [p \in Paths |-> "absent"]
    /\ final = [n \in OutputNames |-> "absent"]
    /\ csv = NoCsv
    /\ pc = 0
    /\ selected = <<>>
    /\ faults = 0
    /\ ledger = {}
    /\ last_exit = "none"
    /\ RUN_STEPS = [s \in StepNames |-> s = "4_resample"]
    /\ made_from = [n \in OutputNames |-> 0]
    /\ NamesIdle

AddSource(p) ==
    /\ pc = 0
    /\ clipped[p] = "absent"
    /\ clipped' = [clipped EXCEPT ![p] = "full"]
    /\ selected' = <<>>
    /\ UNCHANGED <<OVERWRITE, raw, unzipped, nifti, final, csv, pc,
                   faults, ledger, RUN_STEPS, made_from, names_state, last_exit>>

RemoveSource(p) ==
    /\ pc = 0
    /\ clipped[p] # "absent"
    /\ clipped' = [clipped EXCEPT ![p] = "absent"]
    /\ selected' = <<>>
    /\ UNCHANGED <<OVERWRITE, raw, unzipped, nifti, final, csv, pc,
                   faults, ledger, RUN_STEPS, made_from, names_state, last_exit>>

DeleteOutput(n) ==
    /\ pc = 0
    /\ final[n] # "absent"
    /\ final' = [final EXCEPT ![n] = "absent"]
    /\ selected' = <<>>
    /\ UNCHANGED <<OVERWRITE, raw, unzipped, nifti, clipped, csv, pc,
                   faults, ledger, RUN_STEPS, made_from, names_state, last_exit>>

SetOverwrite ==
    /\ pc = 0
    /\ OVERWRITE' = ~OVERWRITE
    /\ selected' = <<>>
    /\ UNCHANGED <<raw, unzipped, nifti, clipped, final, csv, pc,
                   faults, ledger, RUN_STEPS, made_from, names_state, last_exit>>

Resample ==
    /\ pc = 0
    /\ Enabled(4)
    /\ \E outcomes \in OutcomeSeqs({"ok", "fail"}, Len(Reconcile.files_to_process)) :
          step_4_resample(outcomes)
    /\ UNCHANGED <<pc, faults, ledger, RUN_STEPS, made_from, names_state, last_exit>>

ResampleKilled ==
    /\ pc = 0
    /\ Enabled(4)
    /\ \E torn \in TornTables(Reconcile.final_mapping) :
          step_4_killed_persisting(
              [i \in 1..Len(Reconcile.files_to_process) |-> "ok"], torn)
    /\ UNCHANGED <<pc, faults, ledger, RUN_STEPS, made_from, names_state, last_exit>>

NextReg ==
    \/ \E p \in Paths : AddSource(p)
    \/ \E p \in Paths : RemoveSource(p)
    \/ \E n \in Names : DeleteOutput(n)
    \/ SetOverwrite
    \/ Resample
    \/ ResampleKilled

Spec == InitReg /\ [][NextReg]_vars

\* ---------------------------------------------- the pipeline (all RUN_STEPS)
\* pc is the position in the __main__ block: 0 when no process runs, k when
\* step k is the next call.  OVERWRITE is edited before a run is started.
\* An uncaught exception or a kill ends the process: pc goes back to 0.
\* last_exit tells how the last process ended: "done" after step 5 of a run
\* with OVERWRITE off, "rebuilt" after step 5 of a run with OVERWRITE on,
\* "raised" on an uncaught exception, "killed" on an interruption.

\* destinations of a list of units of steps 1 to 3
Mirrored(units) == [i \in 1..Len(units) |-> <<units[i], <<units[i]>>>>]

step_1_unzip(outcomes) ==
    LET r == Unzip(outcomes)
    IN  /\ unzipped' = r.tree
        /\ selected' = r.done
        /\ UNCHANGED <<OVERWRITE, raw, nifti, clipped, final, csv>>

step_2_convert(outcomes) ==
    LET r == Convert(outcomes)
    IN  /\ nifti' = r.tree
        /\ selected' = r.done
        /\ UNCHANGED <<OVERWRITE, raw, unzipped, clipped, final, csv>>

\* step_3_clip when every unit loads
step_3_clip(outcomes) ==
    /\ clipped' = ClipLoop(process_list, outcomes, clipped)
    /\ selected' = Mirrored(process_list)
    /\ UNCHANGED <<OVERWRITE, raw, unzipped, nifti, final, csv>>

\* step_3_clip when LoadImaged raises for unit number k of process_list: the
\* loader raises inside the for statement, outside the try block, and the
\* exception leaves step_3_clip
step_3_clip_raises(outcomes, k) ==
    /\ k \in 1..Len(process_list)
    /\ Len(outcomes) = k - 1
    /\ clipped' = ClipLoop(process_list, outcomes, clipped)
    /\ selected' = Mirrored(process_list)
    /\ UNCHANGED <<OVERWRITE, raw, unzipped, nifti, final, csv>>

InitPipe ==
    /\ OVERWRITE = FALSE
    /\ raw \in [Series -> BOOLEAN]
    /\ unzipped = [s \in Series |-> "absent"]
    /\ nifti = [s \in Series |-> "absent"]
    /\ clipped = [s \in Series |-> "absent"]
    /\ final = [n \in OutputNames |-> "absent"]
    /\ csv = NoCsv
    /\ pc = 0
    /\ selected = <<>>
    /\ faults = 0
    /\ ledger = {}
    /\ last_exit = "none"
    /\ RUN_STEPS = [s \in StepNames |-> TRUE]
    /\ made_from = [n \in OutputNames |-> 0]
    /\ NamesIdle

StartRun ==
    /\ pc = 0
    /\ pc' = 1
    /\ OVERWRITE' \in BOOLEAN
    /\ selected' = <<>>
    /\ UNCHANGED <<raw, unzipped, nifti, clipped, final, csv, faults, ledger, RUN_STEPS, made_from, names_state, last_exit>>

Main1 ==
    /\ pc = 1
    /\ Enabled(1)
    /\ \E outcomes \in OutcomeSeqs(Outcomes1, Load1) :
          /\ faults + Failures(outcomes) <= MaxFaults
          /\ faults' = faults + Failures(outcomes)
          /\ step_1_unzip(outcomes)
    /\ pc' = 2
    /\ UNCHANGED <<ledger, RUN_STEPS, made_from, names_state, last_exit>>

Main1Killed ==
    /\ pc = 1
    /\ Enabled(1)
    /\ \E k \in 1..Load1 : \E outcomes \in OutcomeSeqs(Outcomes1, k - 1) :
       \E o \in {"fail", "torn"} :
          /\ faults + Failures(outcomes) + 1 <= MaxFaults
          /\ faults' = faults + Failures(outcomes) + 1
          /\ step_1_unzip(Append(outcomes, o))
    /\ pc' = 0
    /\ last_exit' = "killed"
    /\ UNCHANGED <<ledger, RUN_STEPS, made_from, names_state>>

Main2 ==
    /\ pc = 2
    /\ Enabled(2)
    /\ \E outcomes \in OutcomeSeqs(Outcomes2, Load2) :
          /\ faults + Failures(outcomes) <= MaxFaults
          /\ faults' = faults + Failures(outcomes)
          /\ step_2_convert(outcomes)
    /\ pc' = 3
    /\ UNCHANGED <<ledger, RUN_STEPS, made_from, names_state, last_exit>>

Main2Killed ==
    /\ pc = 2
    /\ Enabled(2)
    /\ \E k \in 1..Load2 : \E outcomes \in OutcomeSeqs(Outcomes2, k - 1) :
       \E o \in {"fail", "torn"} :
          /\ faults + Failures(outcomes) + 1 <= MaxFaults
          /\ faults' = faults + Failures(outcomes) + 1
          /\ step_2_convert(Append(outcomes, o))
    /\ pc' = 0
    /\ last_exit' = "killed"
    /\ UNCHANGED <<ledger, RUN_STEPS, made_from, names_state>>

Main3 ==
    /\ pc = 3
    /\ Enabled(3)
    /\ \E outcomes \in OutcomeSeqs(Outcomes3, Len(process_list)) :
          /\ faults + Failures(outcomes) <= MaxFaults
          /\ faults' = faults + Failures(outcomes)
          /\ step_3_clip(outcomes)
    /\ pc' = 4
    /\ UNCHANGED <<ledger, RUN_STEPS, made_from, names_state, last_exit>>

Main3Raises ==
    /\ pc = 3
    /\ Enabled(3)
    /\ \E k \in 1..Len(process_list) :
       \E outcomes \in OutcomeSeqs(Outcomes3, k - 1) :
          /\ faults + Failures(outcomes) + 1 <= MaxFaults
          /\ faults' = faults + Failures(outcomes) + 1
          /\ step_3_clip_raises(outcomes, k)
    /\ pc' = 0
    /\ last_exit' = "raised"
    /\ UNCHANGED <<ledger, RUN_STEPS, made_from, names_state>>

Main3Killed ==
    /\ pc = 3
    /\ Enabled(3)
    /\ \E k \in 1..Len(process_list) :
       \E outcomes \in OutcomeSeqs(Outcomes3, k - 1) :
       \E o \in {"fail", "small", "torn"} :
          /\ faults + Failures(outcomes) + 1 <= MaxFaults
          /\ faults' = faults + Failures(outcomes) + 1
          /\ step_3_clip(Append(outcomes, o))
    /\ pc' = 0
    /\ last_exit' = "killed"
    /\ UNCHANGED <<ledger, RUN_STEPS, made_from, names_state>>

Main4 ==
    /\ pc = 4
    /\ Enabled(4)
    /\ \E outcomes \in OutcomeSeqs(Outcomes4, Len(Reconcile.files_to_process)) :
          /\ faults + Failures(outcomes) <= MaxFaults
          /\ faults' = faults + Failures(outcomes)
          /\ step_4_resample(outcomes)
    /\ pc' = 5
    /\ UNCHANGED <<ledger, RUN_STEPS, made_from, names_state, last_exit>>

Main4KilledResampling ==
    /\ pc = 4
    /\ Enabled(4)
    /\ \E k \in 1..Len(Reconcile.files_to_process) :
       \E outcomes \in OutcomeSeqs(Outcomes4, k - 1) :
       \E o \in {"fail", "torn"} :
          /\ faults + Failures(outcomes) + 1 <= MaxFaults
          /\ faults' = faults + Failures(outcomes) + 1
          /\ step_4_killed_resampling(outcomes, k, o)
    /\ pc' = 0
    /\ last_exit' = "killed"
    /\ UNCHANGED <<ledger, RUN_STEPS, made_from, names_state>>

Main4KilledPersisting ==
    /\ pc = 4
    /\ Enabled(4)
    /\ \E outcomes \in OutcomeSeqs(Outcomes4, Len(Reconcile.files_to_process)) :
       \E torn \in TornTables(Reconcile.final_mapping) :
          /\ faults + Failures(outcomes) + 1 <= MaxFaults
          /\ faults' = faults + Failures(outcomes) + 1
          /\ step_4_killed_persisting(outcomes, torn)
    /\ pc' = 0
    /\ last_exit' = "killed"
    /\ UNCHANGED <<ledger, RUN_STEPS, made_from, names_state>>

\* step_5_stats reads 04_Resampled_1mm and logs; the process then exits
Main5 ==
    /\ pc = 5
    /\ Enabled(5)
    /\ pc' = 0
    /\ last_exit' = IF OVERWRITE THEN "rebuilt" ELSE "done"
    /\ UNCHANGED <<OVERWRITE, raw, unzipped, nifti, clipped, final, csv,
                   selected, faults, ledger, RUN_STEPS, made_from, names_state>>

\* the process is killed between two steps
Interrupt ==
    /\ pc \in 2..5
    /\ faults < MaxFaults
    /\ faults' = faults + 1
    /\ pc' = 0
    /\ last_exit' = "killed"
    /\ UNCHANGED <<OVERWRITE, raw, unzipped, nifti, clipped, final, csv,
                   selected, ledger, RUN_STEPS, made_from, names_state>>

NextPipe ==
    \/ StartRun
    \/ Main1
    \/ Main1Killed
    \/ Main2
    \/ Main2Killed
    \/ Main3
    \/ Main3Raises
    \/ Main3Killed
    \/ Main4
    \/ Main4KilledResampling
    \/ Main4KilledPersisting
    \/ Main5
    \/ Interrupt

SpecPipe == InitPipe /\ [][NextPipe]_vars

\* the __main__ block run from a cold start on the trees and the table d,
\* OVERWRITE off, every transform succeeding: the trees and the table it leaves
UninterruptedRun(d) ==
    LET ok == [i \in 1..(NumSeries + NumPaths) |-> "ok"]
        u == UnzipLoop(SortedSeq({s \in DOMAIN raw : raw[s]}), ok, FALSE,
                       [tree |-> d.unzipped, done |-> <<>>, count |-> 0]).tree
        n == ConvertLoop(SortedSeq({s \in DOMAIN u : u[s] # "absent"}), ok, FALSE,
                         [tree |-> d.nifti, done |-> <<>>, count |-> 0]).tree
        c == ClipLoop(ClipGate(SortedSeq({s \in DOMAIN n : HasVolume(n, s)}),
                               FALSE, d.clipped),
                      ok, d.clipped)
        r == ReconcileLoop(Discovered(c), LoadMap(d.csv, FALSE), FALSE, d.final,
                           [max_id |-> LoadMax(d.csv, FALSE),
                            files_to_process |-> <<>>,
                            final_mapping |-> <<>>])
    IN  [unzipped |-> u, nifti |-> n, clipped |-> c,
         final |-> ResampleLoop(r.files_to_process, ok, d.final),
         csv |-> PersistedTable(r.final_mapping)]

\* the trees and the table on disk
Disk ==
    [unzipped |-> unzipped, nifti |-> nifti, clipped |-> clipped,
     final |-> final, csv |-> csv]

\* ------------------------------------------ ledger runs (OVERWRITE stays off)
\* the same runs with the history of allocations kept: ledger holds every
\* <<Rel Path, New Name>> that lines 265-269 have ever allocated
ResampleLogged ==
    /\ pc = 0
    /\ Enabled(4)
    /\ \E outcomes \in OutcomeSeqs({"ok"}, Len(Reconcile.files_to_process)) :
          step_4_resample(outcomes)
    /\ ledger' = ledger \cup
          {<<row[2], row[1]>> : row \in
              {x \in Range(Reconcile.final_mapping) :
                   x[2] \notin DOMAIN LoadMap(csv, OVERWRITE)}}
    /\ UNCHANGED <<pc, faults, last_exit, RUN_STEPS, made_from, names_state>>

NextLedger ==
    \/ \E p \in Paths : AddSource(p)
    \/ \E p \in Paths : RemoveSource(p)
    \/ ResampleLogged

SpecLedger == InitReg /\ [][NextLedger]_vars

\* ------------------------------------- registry runs on an edited table
\* between runs the mapping file is edited by hand or damaged on disk

\* the New Name of row i is replaced by a name of the user's own
RenameRow(i) ==
    /\ pc = 0
    /\ csv.exists /\ csv.header
    /\ i \in 1..Len(csv.rows)
    /\ \A j \in 1..Len(csv.rows) :
          csv.rows[j] # BadRow /\ csv.rows[j][1] # ForeignName
    /\ csv' = [csv EXCEPT !.rows[i] = <<ForeignName, csv.rows[i][2]>>]
    /\ selected' = <<>>
    /\ UNCHANGED <<OVERWRITE, raw, unzipped, nifti, clipped, final, pc,
                   faults, ledger, RUN_STEPS, made_from, names_state, last_exit>>

\* line i of the file can no longer be decoded
CorruptRow(i) ==
    /\ pc = 0
    /\ csv.exists /\ csv.header
    /\ i \in 1..Len(csv.rows)
    /\ \A j \in 1..Len(csv.rows) : csv.rows[j] # BadRow
    /\ csv' = [csv EXCEPT !.rows[i] = BadRow]
    /\ selected' = <<>>
    /\ UNCHANGED <<OVERWRITE, raw, unzipped, nifti, clipped, final, pc,
                   faults, ledger, RUN_STEPS, made_from, names_state, last_exit>>

\* a run of step 4 in which every resampling succeeds
ResampleEdited ==
    /\ pc = 0
    /\ Enabled(4)
    /\ step_4_resample([i \in 1..Len(Reconcile.files_to_process) |-> "ok"])
    /\ UNCHANGED <<pc, faults, ledger, RUN_STEPS, made_from, names_state, last_exit>>

NextEdited ==
    \/ \E p \in Paths : AddSource(p)
    \/ \E p \in Paths : RemoveSource(p)
    \/ \E i \in 1..NumPaths : RenameRow(i)
    \/ \E i \in 1..NumPaths : CorruptRow(i)
    \/ ResampleEdited

SpecEdited == InitReg /\ [][NextEdited]_vars

\* the table of a run that starts from an empty map and max_id 0: the
\* discovered paths numbered case_001, case_002, ... in their sorted order
FreshTable(image_paths) ==
    [exists |-> TRUE, header |-> TRUE,
     rows |-> [i \in 1..Len(image_paths) |-> <<FormatName(i), image_paths[i]>>]]

\* ------------------------------------ registry runs with outputs traced
\* made_from[n] is the relative path whose volume the file n under
\* 04_Resampled_1mm was resampled from, 0 while no run has written n

\* made_from after the loop of lines 274-285: a unit that succeeds writes
\* its output from its own source, a unit that fails writes nothing
TraceLoop(files_to_process, outcomes, made) ==
    [n \in DOMAIN made |->
        LET hits == {i \in 1..Len(files_to_process) :
                        files_to_process[i][2] = n /\ outcomes[i] = "ok"}
        IN  IF hits = {} THEN made[n]
            ELSE files_to_process[CHOOSE i \in hits : \A j \in hits : j <= i][1]]

ResampleTraced ==
    /\ pc = 0
    /\ Enabled(4)
    /\ \E outcomes \in OutcomeSeqs({"ok", "fail"}, Len(Reconcile.files_to_process)) :
          /\ step_4_resample(outcomes)
          /\ made_from' = TraceLoop(Reconcile.files_to_process, outcomes, made_from)
    /\ UNCHANGED <<pc, faults, ledger, RUN_STEPS, names_state, last_exit>>

\* name_mapping.csv is deleted between two runs
LoseTable ==
    /\ pc = 0
    /\ csv.exists
    /\ csv' = NoCsv
    /\ selected' = <<>>
    /\ UNCHANGED <<OVERWRITE, raw, unzipped, nifti, clipped, final, pc,
                   faults, ledger, RUN_STEPS, made_from, names_state, last_exit>>

NextTraced ==
    \/ \E p \in Paths : AddSource(p)
    \/ \E p \in Paths : RemoveSource(p)
    \/ LoseTable
    \/ ResampleTraced

SpecTraced == InitReg /\ [][NextTraced]_vars

\* ------------------------------------- pipeline runs with RUN_STEPS edited
\* as InitPipe, with room left for a single failed transform
InitSkip ==
    /\ OVERWRITE = FALSE
    /\ RUN_STEPS = [s \in StepNames |-> TRUE]
    /\ raw \in [Series -> BOOLEAN]
    /\ unzipped = [s \in Series |-> "absent"]
    /\ nifti = [s \in Series |-> "absent"]
    /\ clipped = [s \in Series |-> "absent"]
    /\ final = [n \in OutputNames |-> "absent"]
    /\ csv = NoCsv
    /\ pc = 0
    /\ selected = <<>>
    /\ faults = MaxFaults - 1
    /\ ledger = {}
    /\ last_exit = "none"
    /\ made_from = [n \in OutputNames |-> 0]
    /\ NamesIdle

\* RUN_STEPS, like OVERWRITE, is edited in the script before a run is started
StartRunWith ==
    /\ pc = 0
    /\ pc' = 1
    /\ OVERWRITE' \in BOOLEAN
    /\ RUN_STEPS' \in [StepNames -> BOOLEAN]
    /\ selected' = <<>>
    /\ UNCHANGED <<raw, unzipped, nifti, clipped, final, csv, faults, ledger,
                   last_exit, made_from, names_state>>

\* the if of a disabled step is false: the block goes on to the next if,
\* and the process exits after the last one
Skip ==
    /\ pc \in 1..5
    /\ ~Enabled(pc)
    /\ pc' = IF pc = 5 THEN 0 ELSE pc + 1
    /\ last_exit' = IF pc < 5 THEN last_exit
                    ELSE IF OVERWRITE THEN "rebuilt" ELSE "done"
    /\ UNCHANGED <<OVERWRITE, RUN_STEPS, raw, unzipped, nifti, clipped, final,
                   csv, selected, faults, ledger, made_from, names_state>>

NextSkip ==
    \/ StartRunWith
    \/ Skip
    \/ Main1
    \/ Main2
    \/ Main3
    \/ Main3Raises
    \/ Main4
    \/ Main5

SpecSkip == InitSkip /\ [][NextSkip]_vars

\* ------------------------------------------------------ the path sanitizer
\* A name is the sequence of its code points.
\* longest name drawn
MaxLen == 3
\* the last code point that r'[^\x00-\x7F]+' leaves in place
AsciiMax == 127
\* code points of the drawn names: TAB, ".", "a", e-acute
Alphabet == {9, 46, 97, 233}
\* the argument of strip: "-", "_", " ", "."
StripChars == {45, 95, 32, 46}
\* "Unknown_ID"
Unknown_ID == <<85, 110, 107, 110, 111, 119, 110, 95, 73, 68>>
\* "1.dcm", the file that every drawn series directory holds
FileName == <<49, 46, 100, 99, 109>>
\* ".dcm"
DotDcm == <<46, 100, 99, 109>>

\* every name of at most MaxLen code points of the alphabet
Inputs == UNION {[1..n -> Alphabet] : n \in 0..MaxLen}

\* names a directory can bear: not empty, not "." and not ".."
DirNames == Inputs \ {<<>>, <<46>>, <<46, 46>>}

RECURSIVE DropNonAscii(_)
\* re.sub(r'[^\x00-\x7F]+', '', name)
DropNonAscii(s) ==
    IF s = <<>> THEN <<>>
    ELSE (IF Head(s) <= AsciiMax THEN <<Head(s)>> ELSE <<>>)
         \o DropNonAscii(Tail(s))

RECURSIVE LStrip(_, _)
LStrip(s, chars) ==
    IF s # <<>> /\ Head(s) \in chars THEN LStrip(Tail(s), chars) ELSE s

RECURSIVE RStrip(_, _)
RStrip(s, chars) ==
    IF s # <<>> /\ s[Len(s)] \in chars
    THEN RStrip(SubSeq(s, 1, Len(s) - 1), chars) ELSE s

\* str.strip(chars)
Strip(s, chars) == RStrip(LStrip(s, chars), chars)

sanitize_name(name) ==
    LET clean == Strip(DropNonAscii(name), StripChars)
    IN  IF clean # <<>> THEN clean ELSE Unknown_ID

\* str.lower() on the code points "A".."Z"
Lower(s) == [i \in 1..Len(s) |-> IF s[i] \in 65..90 THEN s[i] + 32 ELSE s[i]]

\* str.endswith(suffix)
EndsWith(s, suffix) ==
    /\ Len(s) >= Len(suffix)
    /\ SubSeq(s, Len(s) - Len(suffix) + 1, Len(s)) = suffix

\* os.path.splitext(f)[1]: from the last dot on, leading dots not counted
SplitExt(f) ==
    LET lead == Len(f) - Len(LStrip(f, {46}))
        dots == {i \in (lead + 1)..Len(f) : f[i] = 46}
    IN  IF dots = {} THEN <<>>
        ELSE SubSeq(f, CHOOSE i \in dots : \A j \in dots : j <= i, Len(f))

\* lines 126-127: the file name under the target directory
CleanFile(f) ==
    LET clean_f == sanitize_name(f)
    IN  IF ~EndsWith(Lower(clean_f), DotDcm) THEN clean_f \o SplitExt(f)
        ELSE clean_f

\* lines 121-129: dst of the file that the series directory seg holds, as
\* <<clean_rel, clean_f>>
Destination(seg) == <<sanitize_name(seg), CleanFile(FileName)>>

\* the trees, the table and the orchestrator
pipeline_state ==
    <<OVERWRITE, RUN_STEPS, raw, unzipped, nifti, clipped, final, csv, pc,
      selected, faults, ledger, last_exit, made_from>>

\* nothing on disk and no process
NothingYet ==
    /\ raw = [s \in {} |-> FALSE]
    /\ unzipped = [s \in {} |-> "absent"]
    /\ nifti = [s \in {} |-> "absent"]
    /\ clipped = [p \in Paths |-> "absent"]
    /\ final = [n \in OutputNames |-> "absent"]
    /\ csv = NoCsv
    /\ pc = 0
    /\ selected = <<>>
    /\ faults = 0
    /\ ledger = {}
    /\ last_exit = "none"
    /\ made_from = [n \in OutputNames |-> 0]

\* --- sanitize_name applied to a drawn name
InitSan ==
    /\ NothingYet
    /\ OVERWRITE = FALSE
    /\ RUN_STEPS = [s \in StepNames |-> TRUE]
    /\ input_name \in Inputs
    /\ san = [called |-> FALSE, ret |-> <<>>]
    /\ raw_names = <<>>
    /\ walked = 0
    /\ dst_tree = {}

CallSanitize ==
    /\ ~san.called
    /\ san' = [called |-> TRUE, ret |-> sanitize_name(input_name)]
    /\ UNCHANGED <<pipeline_state, input_name, raw_names, walked, dst_tree>>

NextSan == CallSanitize

SpecSan == InitSan /\ [][NextSan]_vars

\* --- step 1 over two named series directories of the raw tree
\* raw_names lists the directories in the order os.walk yields them, walked
\* counts those the loop of line 117 has passed, dst_tree holds
\* <<dst, series directory whose file was written there>>
InitUnzip ==
    /\ NothingYet
    /\ OVERWRITE \in BOOLEAN
    /\ RUN_STEPS = [s \in StepNames |-> s = "1_unzip"]
    /\ input_name = <<>>
    /\ san = [called |-> FALSE, ret |-> <<>>]
    /\ raw_names \in {<<a, b>> : a \in DirNames, b \in DirNames} \
                     {<<a, a>> : a \in DirNames}
    /\ walked = 0
    /\ dst_tree = {}

\* os.path.exists(dst)
DstExists(dst) == \E e \in dst_tree : e[1] = dst

\* lines 117-140 for the next directory: the gate of line 132, then
\* dcmdjpeg (or copy2) writes dst, or both fail and nothing is written
WalkDir(o) ==
    /\ Enabled(1)
    /\ walked < Len(raw_names)
    /\ LET seg == raw_names[walked + 1]
           dst == Destination(seg)
       IN  dst_tree' =
             IF ~OVERWRITE /\ DstExists(dst) THEN dst_tree
             ELSE IF o = "ok"
                  THEN {e \in dst_tree : e[1] # dst} \cup {<<dst, seg>>}
                  ELSE dst_tree
    /\ walked' = walked + 1
    /\ UNCHANGED <<pipeline_state, input_name, san, raw_names>>

NextUnzip == \E o \in {"ok", "fail"} : WalkDir(o)

SpecUnzip == InitUnzip /\ [][NextUnzip]_vars

\* the values the variables take
TypeOK ==
    /\ OVERWRITE \in BOOLEAN
    /\ \A s \in DOMAIN raw : raw[s] \in BOOLEAN
    /\ \A s \in DOMAIN unzipped : unzipped[s] \in FileStates
    /\ \A s \in DOMAIN nifti : nifti[s] \in DirStates
    /\ \A s \in DOMAIN clipped : clipped[s] \in ClipStates
    /\ \A n \in DOMAIN final : final[n] \in FileStates
    /\ csv.exists \in BOOLEAN /\ csv.header \in BOOLEAN
    /\ \A i \in 1..Len(csv.rows) :
          csv.rows[i] = BadRow \/ csv.rows[i][1] \in OutputNames
    /\ pc \in 0..5
    /\ faults \in 0..MaxFaults
    /\ last_exit \in {"none", "done", "rebuilt", "raised", "killed"}
    /\ RUN_STEPS \in [StepNames -> BOOLEAN]
    /\ made_from \in [OutputNames -> 0..NumPaths]
    /\ input_name \in Inputs /\ san.called \in BOOLEAN
    /\ walked \in 0..Len(raw_names)

\* ================================================================== claims

\* C1 - Identifier stability under additions: a run with OVERWRITE off that
\* finds every registered path still in the source tree keeps every row of
\* the table as it was, gives each newly discovered path an identifier
\* greater than the previous maximum, and writes one row per discovered
\* path, sorted by name.
C1_StableUnderAdditions ==
    [][ LET old == Range(ReadRows(csv))
            prevIds == {ParseId(r[1]) : r \in old}
            found == {p \in Paths : clipped[p] # "absent"}
            new == Range(csv'.rows) \ old
        IN  (Resample /\ ~OVERWRITE /\ \A r \in old : r[2] \in found)
            => /\ \A r \in old : r \in Range(csv'.rows)
               /\ \A r \in new : \A i \in prevIds : ParseId(r[1]) > i
               /\ {r[2] : r \in new} = found \ {r[2] : r \in old}
               /\ Len(csv'.rows) = Cardinality(found)
               /\ \A i, j \in 1..Len(csv'.rows) :
                     i < j => ~StrLess(csv'.rows[j][1], csv'.rows[i][1]) ]_vars

\* a run has just added relative path 1 to a table that held paths 2 and 3:
\* it resampled only the new item, as case_003
C1_Witness ==
    /\ ~OVERWRITE
    /\ selected = << <<1, <<0, 0, 3>>>> >>
    /\ csv.rows = << << <<0, 0, 1>>, 2>>, << <<0, 0, 2>>, 3>>, << <<0, 0, 3>>, 1>> >>

\* C2 - Once an identifier is assigned to a relative path it never changes,
\* also when the item leaves the source tree and comes back (OVERWRITE off,
\* mapping file intact): no path is ever allocated two identifiers.
C2_IdentifierNeverChanges ==
    \A a \in ledger : \A b \in ledger : a[1] = b[1] => a[2] = b[2]

\* C3 - Identifiers are never reused: every newly allocated identifier is
\* larger than every identifier allocated in an earlier run, so no
\* identifier is given to two different relative paths.
C3_NeverReused ==
    [][ \A a \in ledger' \ ledger : \A b \in ledger :
            /\ ParseId(a[2]) > ParseId(b[2])
            /\ a[2] = b[2] => a[1] = b[1] ]_vars

\* C4 - Superset ledger: a run never drops a recorded row; a row whose
\* relative path is no longer discovered is still in the written table.
C4_SupersetLedger ==
    [][ (Resample /\ ~OVERWRITE)
        => \A r \in Range(ReadRows(csv)) : r \in Range(csv'.rows) ]_vars

\* C5 - Recovery without reassignment: with OVERWRITE off, a registered and
\* discovered path whose output file is missing is queued for resampling
\* under its recorded name, keeps exactly that row in the written table, and
\* the run allocates new identifiers only for unregistered paths.
C5_RecoveryKeepsIdentifier ==
    [][ LET old == Range(ReadRows(csv))
            prevIds == {ParseId(r[1]) : r \in old}
            found == {p \in Paths : clipped[p] # "absent"}
            fresh == {r \in Range(csv'.rows) :
                         \A i \in prevIds : ParseId(r[1]) > i}
        IN  (Resample /\ ~OVERWRITE)
            => \A r \in old :
                  (r[2] \in found /\ final[r[1]] = "absent"
                     /\ \A q \in old : q[2] = r[2] => q = r)
                  => /\ <<r[2], r[1]>> \in Range(selected')
                     /\ \A q \in Range(csv'.rows) : q[2] = r[2] => q = r
                     /\ r \in Range(csv'.rows)
                     /\ Cardinality(fresh)
                           = Cardinality(found \ {q[2] : q \in old}) ]_vars

\* the output of case_001 was deleted while both rows of a two-entry table
\* stayed: the run queued path 1 alone, as case_001, and wrote it again
C5_Witness ==
    /\ ~OVERWRITE
    /\ selected = << <<1, <<0, 0, 1>>>> >>
    /\ csv.rows = << << <<0, 0, 1>>, 1>>, << <<0, 0, 2>>, 2>> >>
    /\ final[<<0, 0, 1>>] = "full"
    /\ final[<<0, 0, 2>>] = "full"

\* C8 - Atomic registry write: whatever happens while the table is being
\* persisted, the file on disk is the previous table or a complete new one
\* (a header and one row for every discovered path).
C8_AtomicWrite ==
    [][ csv' # csv
        => /\ csv'.header
           /\ \A p \in Paths : clipped[p] # "absent"
                 => \E i \in 1..Len(csv'.rows) : csv'.rows[i][2] = p ]_vars

\* ------------------------------------------------------- pipeline claims
\* C6 - Idempotence: in a run with OVERWRITE off that follows a completed
\* run with OVERWRITE off (no source changes), every stage that runs to its
\* end hands no unit to a transform and leaves the persisted table as it was.
C6_SecondRunDoesNothing ==
    [][ (last_exit = "done" /\ ~OVERWRITE /\ pc \in 1..4 /\ pc' = pc + 1)
        => (selected' = <<>> /\ csv' = csv) ]_vars

\* every unit of every stage has a destination that passes the stage's
\* completeness check, and every clipped volume has a row whose output exists
LooksComplete ==
    /\ \A s \in Series : raw[s] => unzipped[s] # "absent"
    /\ \A s \in Series : unzipped[s] # "absent" => nifti[s] \in {"partial", "full"}
    /\ \A s \in Series :
          nifti[s] \in {"partial", "full"} => clipped[s] \in {"partial", "full"}
    /\ \A s \in Series : clipped[s] # "absent"
          => \E i \in 1..Len(csv.rows) :
                csv.rows[i][2] = s /\ final[csv.rows[i][1]] # "absent"

\* C6 as amended - the same, for a first run that left every destination
\* passing its stage's completeness check: every stage of the second run
\* that runs to its end hands no unit to its transform, changes no tree,
\* rewrites the same table and leaves every destination complete-looking.
C6_SecondRunDoesNothingWhenComplete ==
    [][ (last_exit = "done" /\ ~OVERWRITE /\ LooksComplete
            /\ pc \in 1..4 /\ pc' = pc + 1)
        => /\ selected' = <<>>
           /\ csv' = csv
           /\ UNCHANGED <<unzipped, nifti, clipped, final>>
           /\ LooksComplete' ]_vars

\* a second run over two complete series has just finished step 4 without
\* resampling anything
C6_Witness ==
    /\ last_exit = "done"
    /\ ~OVERWRITE
    /\ pc = 5
    /\ \A s \in Series : raw[s]
    /\ LooksComplete
    /\ selected = <<>>
    /\ Len(csv.rows) = NumSeries

\* C7 - Crash-safe retry: with OVERWRITE off, a stage that runs to its end
\* hands every unit whose destination is cut short to its transform again;
\* no partially written output is treated as done.
C7_PartialOutputRetried ==
    [][ (~OVERWRITE /\ pc \in 1..4 /\ pc' = pc + 1)
        => /\ pc = 1 => \A s \in Series :
                 (raw[s] /\ unzipped[s] = "partial")
                     => <<s, <<s>>>> \in Range(selected')
           /\ pc = 2 => \A s \in Series :
                 (unzipped[s] # "absent" /\ nifti[s] = "partial")
                     => <<s, <<s>>>> \in Range(selected')
           /\ pc = 3 => \A s \in Series :
                 (nifti[s] \in {"partial", "full"} /\ clipped[s] = "partial")
                     => <<s, <<s>>>> \in Range(selected')
           /\ pc = 4 => \A i \in 1..Len(csv'.rows) :
                 final[csv'.rows[i][1]] = "partial"
                     => <<csv'.rows[i][2], csv'.rows[i][1]>> \in Range(selected')
      ]_vars

\* C9 - Isolated failure: no failure of one unit's transform, or of reading
\* one unit's input, ends the run; a process ends by finishing step 5 or by
\* being killed.
C9_UnitFailureNeverEndsRun == last_exit # "raised"

\* C10 - Stage Gate: a stage that is not killed selects a unit for its
\* transform unless OVERWRITE is off, the destination exists and passes the
\* completeness check (step 4: the assigned output file exists), and it
\* leaves the destination of every unit it skips untouched.
C10_GateDecision ==
    [][ (pc \in 1..4 /\ (pc' = pc + 1 \/ (pc' = 0 /\ last_exit' = "raised")))
        => /\ pc = 1 => \A s \in Series : raw[s] =>
                 LET skip == ~OVERWRITE /\ unzipped[s] # "absent"
                 IN  /\ (<<s, <<s>>>> \in Range(selected')) <=> ~skip
                     /\ skip => unzipped'[s] = unzipped[s]
           /\ pc = 2 => \A s \in Series : unzipped[s] # "absent" =>
                 LET skip == ~OVERWRITE /\ nifti[s] \in {"partial", "full"}
                 IN  /\ (<<s, <<s>>>> \in Range(selected')) <=> ~skip
                     /\ skip => nifti'[s] = nifti[s]
           /\ pc = 3 => \A s \in Series : nifti[s] \in {"partial", "full"} =>
                 LET skip == ~OVERWRITE /\ clipped[s] \in {"partial", "full"}
                 IN  /\ (<<s, <<s>>>> \in Range(selected')) <=> ~skip
                     /\ skip => clipped'[s] = clipped[s]
           /\ pc = 4 => \A i \in 1..Len(csv'.rows) :
                 LET n == csv'.rows[i][1]
                     skip == ~OVERWRITE /\ final[n] # "absent"
                 IN  /\ (<<csv'.rows[i][2], n>> \in Range(selected')) <=> ~skip
                     /\ skip => final'[n] = final[n]
      ]_vars

\* C10 as amended - the same, except that step 4 skips a unit only when
\* OVERWRITE is off, its relative path has a row in the loaded table and the
\* output file of that row exists; a newly allocated name is always
\* resampled, whether or not a file of that name is already there.
C10_GateDecisionRegistered ==
    [][ (pc \in 1..4 /\ (pc' = pc + 1 \/ (pc' = 0 /\ last_exit' = "raised")))
        => /\ pc = 1 => \A s \in Series : raw[s] =>
                 LET skip == ~OVERWRITE /\ unzipped[s] # "absent"
                 IN  /\ (<<s, <<s>>>> \in Range(selected')) <=> ~skip
                     /\ skip => unzipped'[s] = unzipped[s]
           /\ pc = 2 => \A s \in Series : unzipped[s] # "absent" =>
                 LET skip == ~OVERWRITE /\ nifti[s] \in {"partial", "full"}
                 IN  /\ (<<s, <<s>>>> \in Range(selected')) <=> ~skip
                     /\ skip => nifti'[s] = nifti[s]
           /\ pc = 3 => \A s \in Series : nifti[s] \in {"partial", "full"} =>
                 LET skip == ~OVERWRITE /\ clipped[s] \in {"partial", "full"}
                 IN  /\ (<<s, <<s>>>> \in Range(selected')) <=> ~skip
                     /\ skip => clipped'[s] = clipped[s]
           /\ pc = 4 => \A s \in Series : clipped[s] # "absent" =>
                 LET old == {r \in Range(ReadRows(csv)) : r[2] = s}
                     skip == /\ ~OVERWRITE
                             /\ \E r \in old : final[r[1]] # "absent"
                 IN  /\ (\E e \in Range(selected') : e[1] = s) <=> ~skip
                     /\ skip => \A r \in old : final'[r[1]] = final[r[1]]
      ]_vars

\* step 4 of a run with OVERWRITE off has just resampled series 2 and
\* skipped series 1, whose output was there
C10_Witness ==
    /\ pc = 5
    /\ ~OVERWRITE
    /\ Len(csv.rows) = 2
    /\ Len(selected) = 1
    /\ selected[1][1] = 2
    /\ \A n \in Names : final[n] # "absent" <=> ParseId(n) <= 2

\* C11 - Resumability: with OVERWRITE off and transforms that succeed, the
\* result of an uninterrupted run from the state on disk is the same before
\* and after any step of a run that is stopped between two units or between
\* two stages, so a cold restart ends where the uninterrupted run would
\* have; a stage that completes a run leaves exactly that result.
C11_Resumable ==
    [][ LET upstream_done ==
                /\ pc >= 2 => Load1 = 0
                /\ pc >= 3 => Load2 = 0
                /\ pc >= 4 => process_list = <<>>
            no_new_damage ==
                /\ \A s \in Series : unzipped'[s] = "partial" => unzipped[s] = "partial"
                /\ \A s \in Series : nifti'[s] = "partial" => nifti[s] = "partial"
                /\ \A s \in Series :
                      clipped'[s] \in {"partial", "small"} => clipped'[s] = clipped[s]
                /\ \A n \in Names : final'[n] = "partial" => final[n] = "partial"
            clean == \/ faults' = faults
                     \/ /\ faults' = faults + 1
                        /\ pc' = 0
                        /\ last_exit' = "killed"
                        /\ csv' = csv
                        /\ no_new_damage
        IN  (~OVERWRITE /\ pc \in 1..5 /\ upstream_done /\ clean)
            => /\ UninterruptedRun(Disk') = UninterruptedRun(Disk)
               /\ (pc = 4 /\ pc' = 5) => Disk' = UninterruptedRun(Disk) ]_vars

\* a run was killed before step 4 had finished; the run started after it
\* has just finished step 4, resampled something, and left the result of an
\* uninterrupted run: every series converted, clipped, resampled, registered
C11_Witness ==
    /\ pc = 5
    /\ ~OVERWRITE
    /\ last_exit = "killed"
    /\ faults = 1
    /\ Len(selected) >= 1
    /\ \A s \in Series : raw[s] /\ unzipped[s] = "full" /\ nifti[s] = "full"
                         /\ clipped[s] = "full"
    /\ Len(csv.rows) = NumSeries
    /\ \A i \in 1..Len(csv.rows) : final[csv.rows[i][1]] = "full"
    /\ Disk = UninterruptedRun(Disk)

\* C12 - Sanitizer totality: whatever the input, sanitize_name returns a
\* name that is not empty and whose characters are all printable 7-bit
\* ASCII (code points 32 to 126), and returns "Unknown_ID" when the input
\* is empty or has no character in that range.
C12_SanitizerTotal ==
    san.called =>
        /\ san.ret # <<>>
        /\ \A i \in 1..Len(san.ret) : san.ret[i] \in 32..126
        /\ (\A i \in 1..Len(input_name) : input_name[i] \notin 32..126)
               => san.ret = Unknown_ID

\* C18 - Disjoint destinations: two series directories of the raw tree
\* never have the same destination under 01_Uncompressed, and a destination
\* that exists holds the file of its own series directory.
C18_DisjointDestinations ==
    /\ \A i \in 1..walked : \A j \in 1..walked :
          i # j => Destination(raw_names[i]) # Destination(raw_names[j])
    /\ \A i \in 1..walked : \A e \in dst_tree :
          e[1] = Destination(raw_names[i]) => e[2] = raw_names[i]

\* C13 - Table injectivity: from an absent mapping file, whatever sources
\* are added and removed, outputs deleted and OVERWRITE set between runs of
\* step 4, no two rows of the persisted table have the same assigned name
\* and no two rows have the same relative path.
C13_TableInjective ==
    \A i \in 1..Len(csv.rows) : \A j \in 1..Len(csv.rows) :
        i # j => /\ csv.rows[i][1] # csv.rows[j][1]
                 /\ csv.rows[i][2] # csv.rows[j][2]

\* a full table written after removals and re-additions: every path has a
\* row and some row's identifier is not the rank of its path
C13_Witness ==
    /\ csv.exists /\ csv.header
    /\ Len(csv.rows) = NumPaths
    /\ \E i \in 1..Len(csv.rows) : ParseId(csv.rows[i][1]) # csv.rows[i][2]
    /\ selected # <<>>

\* C14 - A disabled stage is skipped: when the RUN_STEPS entry of the next
\* step is false the block moves on and no tree and no table changes, so
\* the outputs of earlier runs stay as they are; the steps are passed in
\* the order 1..5, and an enabled step changes only its own output tree
\* (step 4: 04_Resampled_1mm and the table), whatever its predecessor left.
C14_DisabledStageSkipped ==
    [][ /\ (pc \in 1..5 /\ ~RUN_STEPS[StepName(pc)])
            => /\ Disk' = Disk
               /\ raw' = raw
               /\ pc' = IF pc = 5 THEN 0 ELSE pc + 1
        /\ pc \in 1..5 => pc' \in {0, pc + 1}
        /\ pc = 1 => UNCHANGED <<raw, nifti, clipped, final, csv>>
        /\ pc = 2 => UNCHANGED <<raw, unzipped, clipped, final, csv>>
        /\ pc = 3 => UNCHANGED <<raw, unzipped, nifti, final, csv>>
        /\ pc = 4 => UNCHANGED <<raw, unzipped, nifti, clipped>>
        /\ pc = 5 => UNCHANGED <<raw, Disk>> ]_vars

\* step 2 has just been skipped: a volume converted by an earlier run is
\* still there, a series unzipped since then has not been converted, and
\* step 3 is the next call
C14_Witness ==
    /\ pc = 3
    /\ ~RUN_STEPS["2_convert"]
    /\ RUN_STEPS["1_unzip"] /\ RUN_STEPS["3_clip"]
    /\ \E s \in Series : nifti[s] = "full"
    /\ \E s \in Series : unzipped[s] = "full" /\ nifti[s] = "absent"

\* C15 - Defensive row parsing: with OVERWRITE off, a loaded row whose name
\* holds no case_<int> does not stop the load and does not count for the
\* maximum identifier (a new item is numbered just above the largest
\* identifier of the other loaded rows), its path keeps the foreign name in
\* the table the run writes when the path is discovered, and the run writes
\* one row per discovered path.
C15_ForeignRowKept ==
    [][ LET rows == ReadRows(csv)
            foreign == {r \in Range(rows) : ~Matches(r[1])}
            ids == {ParseId(r[1]) : r \in Range(rows) \ foreign}
            top == IF ids = {} THEN 0 ELSE CHOOSE i \in ids : \A j \in ids : j <= i
            found == {p \in Paths : clipped[p] # "absent"}
            new == {r \in Range(csv'.rows) : r[2] \notin {q[2] : q \in Range(rows)}}
        IN  (ResampleEdited /\ ~OVERWRITE /\ foreign # {})
            => /\ \A r \in foreign : r[2] \in found => r \in Range(csv'.rows)
               /\ {ParseId(r[1]) : r \in new} = (top + 1)..(top + Cardinality(new))
               /\ csv'.exists /\ csv'.header
               /\ {r[2] : r \in Range(csv'.rows)} = found
               /\ Len(csv'.rows) = Cardinality(found) ]_vars

\* a run has just rewritten a table that held a foreign name: the row is
\* still there, its output was written under that name, and a new item was
\* numbered next to it
C15_Witness ==
    /\ ~OVERWRITE
    /\ \E i \in 1..Len(csv.rows) :
          csv.rows[i] # BadRow /\ csv.rows[i][1] = ForeignName
    /\ final[ForeignName] = "full"
    /\ \E i \in 1..Len(selected) : selected[i][2] = ForeignName
    /\ \E i \in 1..Len(selected) : selected[i][2] # ForeignName

\* C16 - Total load failure: with OVERWRITE off, when name_mapping.csv is
\* absent or reading it raises at some line, the run reconciles from an
\* empty map and maximum identifier 0: it writes the discovered paths
\* numbered case_001.. in sorted order and processes each of them.
C16_FailedLoadStartsEmpty ==
    [][ LET image_paths == Discovered(clipped)
        IN  (/\ ResampleEdited
             /\ ~OVERWRITE
             /\ \/ ~csv.exists
                \/ csv.header /\ \E i \in 1..Len(csv.rows) : csv.rows[i] = BadRow)
            => /\ csv' = FreshTable(image_paths)
               /\ selected' = [i \in 1..Len(image_paths) |->
                                  <<image_paths[i], FormatName(i)>>] ]_vars

\* C17 - Forced rebuild: a run of step 4 with OVERWRITE on ignores the
\* persisted table, queues every discovered path and writes them numbered
\* case_001..case_n in sorted path order; with OVERWRITE off a path keeps
\* a loaded row, and a path without a loaded row never gets a name that a
\* loaded row holds (it is numbered above all of them).
C17_ForcedRebuild ==
    [][ LET image_paths == Discovered(clipped)
            old == Range(ReadRows(csv))
            loaded == {r[2] : r \in old}
        IN  Resample
            => /\ OVERWRITE
                    => /\ csv' = FreshTable(image_paths)
                       /\ selected' = [i \in 1..Len(image_paths) |->
                                          <<image_paths[i], FormatName(i)>>]
               /\ ~OVERWRITE
                    => \A r \in Range(csv'.rows) :
                          IF r[2] \in loaded THEN r \in old
                          ELSE \A q \in old : ParseId(r[1]) > ParseId(q[1]) ]_vars

\* a forced run has just queued every path and renumbered them from
\* case_001, and its resampling left an output
C17_Witness ==
    /\ OVERWRITE
    /\ Len(selected) = NumPaths
    /\ csv = FreshTable(Discovered(clipped))
    /\ \A i \in 1..Len(selected) : selected[i][2] = FormatName(i)
    /\ \E n \in Names : final[n] = "full"

\* C19 - Output/registry consistency: whatever transforms fail, sources
\* come and go and the mapping file is lost, every output file that a row
\* of the persisted table names and that exists (so that the gate of line
\* 260 takes it as done) was resampled from the relative path of that row.
C19_OutputMatchesRow ==
    \A i \in 1..Len(ReadRows(csv)) :
        LET row == ReadRows(csv)[i]
        IN  final[row[1]] # "absent" => made_from[row[1]] = row[2]

====
